---- MODULE Spec2Model ----
(***************************************************************************)
(* Model of src/app.py: the lineup optimizer (optimize_lineup), the        *)
(* projection resolver (get_my_roster / get_free_agents) and the AI        *)
(* start/sit handler (ai_start_sit_advice).                                 *)
(***************************************************************************)
EXTENDS Integers, Sequences, FiniteSets, TLC

(* ---------------------------- bounds ----------------------------------- *)
MaxRoster == 3
MaxWeek == 2
MaxValue == 2
MaxText == 5
MaxRemoteText == 2

(* ------------------------- optimize_lineup ----------------------------- *)
VARIABLES roster, players, opt_pc, idx, optimal_lineup, benched, filled_slots,
          totalProjected

(* ---------------------- projection resolver ---------------------------- *)
VARIABLES res_pc, res_player, current_week, projected, actual

(* ----------------------- ai_start_sit_advice --------------------------- *)
VARIABLES ai_pc, body, api_key, outbound, remote, ai_text, lines,
          recommendation, confidence, reasoning, responses

optVars == <<roster, players, opt_pc, idx, optimal_lineup, benched,
             filled_slots, totalProjected>>
resVars == <<res_pc, res_player, current_week, projected, actual>>
aiVars == <<ai_pc, body, api_key, outbound, remote, ai_text, lines,
            recommendation, confidence, reasoning, responses>>

vars == <<optVars, resVars, aiVars>>

\* a handler that is not running: its variables keep these values
None == "None"

ResIdle ==
  /\ res_pc = "idle" /\ res_player = None /\ current_week = 0
  /\ projected = 0 /\ actual = 0

AiIdle ==
  /\ ai_pc = "idle" /\ body = None /\ api_key = FALSE /\ outbound = 0
  /\ remote = [kind |-> "none", text |-> <<>>] /\ ai_text = <<>> /\ lines = <<>>
  /\ recommendation = None /\ confidence = 0 /\ reasoning = <<>>
  /\ responses = <<>>

FLEX == "RB/WR/TE"
BE == "BE"

SlotNames == {"QB", "RB", "WR", "TE", FLEX, "D/ST", "K"}

lineup_slots ==
  [s \in SlotNames |->
     CASE s = "QB" -> 1
       [] s = "RB" -> 2
       [] s = "WR" -> 2
       [] s = "TE" -> 1
       [] s = FLEX -> 1
       [] s = "D/ST" -> 1
       [] s = "K" -> 1]

FlexPositions == {"RB", "WR", "TE"}
BenchStatuses == {"OUT", "IR"}


\* One entry of the players list built at lines 109-119 (the fields the
\* optimizer reads); a player is identified by its index in the roster.
Player(pos, pts, inj, status, elig) ==
  [position |-> pos, projectedPoints |-> pts, injured |-> inj,
   injuryStatus |-> status, eligibleSlots |-> elig]

\* players.sort(key=projectedPoints, reverse=True): stable and descending.
\* InsertDesc puts roster index n into a sorted list of later indices, before
\* every index with no more points (ties keep roster order).
RECURSIVE InsertDesc(_, _, _)
InsertDesc(r, n, s) ==
  IF s = <<>> THEN <<n>>
  ELSE IF r[Head(s)].projectedPoints > r[n].projectedPoints
       THEN <<Head(s)>> \o InsertDesc(r, n, Tail(s))
       ELSE <<n>> \o s

\* variant: the sort without reverse=True
RECURSIVE InsertAsc(_, _, _)
InsertAsc(r, n, s) ==
  IF s = <<>> THEN <<n>>
  ELSE IF r[Head(s)].projectedPoints < r[n].projectedPoints
       THEN <<Head(s)>> \o InsertAsc(r, n, Tail(s))
       ELSE <<n>> \o s

RECURSIVE SortFromAsc(_, _)
SortFromAsc(r, n) ==
  IF n > Len(r) THEN <<>> ELSE InsertAsc(r, n, SortFromAsc(r, n + 1))

SortAscending(r) == SortFromAsc(r, 1)

RECURSIVE SortFrom(_, _)
SortFrom(r, n) ==
  IF n > Len(r) THEN <<>> ELSE InsertDesc(r, n, SortFrom(r, n + 1))

SortDesc(r) == SortFrom(r, 1)

\* sum(p['projectedPoints'] for p in optimal_lineup)
RECURSIVE SumPoints(_, _)
SumPoints(r, lineup) ==
  IF lineup = <<>> THEN 0
  ELSE r[Head(lineup).player].projectedPoints + SumPoints(r, Tail(lineup))

\* variant: the status list without 'IR'
BenchedForInjuryOutOnly(p) == p.injured /\ p.injuryStatus = "OUT"

\* line 141: player['injured'] and player['injuryStatus'] in ['OUT', 'IR']
BenchedForInjury(p) == p.injured /\ p.injuryStatus \in BenchStatuses

\* variant: the position slot is tested with <= instead of <
PlacementOffByOne(p, f) ==
  IF p.position \in DOMAIN lineup_slots
     /\ f[p.position] <= lineup_slots[p.position]
  THEN p.position
  ELSE IF FLEX \in p.eligibleSlots /\ f[FLEX] < lineup_slots[FLEX]
       THEN IF p.position \in FlexPositions THEN FLEX ELSE BE
       ELSE BE

\* lines 147-163: the slot for a player that is not benched for injury, when
\* the counters are f
Placement(p, f) ==
  IF p.position \in DOMAIN lineup_slots
     /\ f[p.position] < lineup_slots[p.position]
  THEN p.position
  ELSE IF FLEX \in p.eligibleSlots /\ f[FLEX] < lineup_slots[FLEX]
       THEN IF p.position \in FlexPositions THEN FLEX ELSE BE
       ELSE BE

\* variant: the injury test is skipped while a slot is free
SlotForPositionFirst(p, f) ==
  IF Placement(p, f) # BE THEN Placement(p, f) ELSE BE

\* variant: the flex slot is never given
SlotForNoFlex(p, f) ==
  IF BenchedForInjury(p) \/ Placement(p, f) = FLEX THEN BE ELSE Placement(p, f)

\* lines 141-163: the recommendedSlot the loop body gives player p
SlotFor(p, f) == IF BenchedForInjury(p) THEN BE ELSE Placement(p, f)

OptIdle ==
  /\ opt_pc = "start"
  /\ players = <<>> /\ idx = 0 /\ optimal_lineup = <<>> /\ benched = <<>>
  /\ filled_slots = [s \in SlotNames |-> 0] /\ totalProjected = 0

\* lines 122-137
SortPlayers ==
  /\ opt_pc = "start"
  /\ players' = SortDesc(roster)
  /\ optimal_lineup' = <<>>
  /\ benched' = <<>>
  /\ filled_slots' = [s \in DOMAIN lineup_slots |-> 0]
  /\ idx' = 1
  /\ opt_pc' = "loop"
  /\ UNCHANGED <<roster, totalProjected, resVars, aiVars>>

\* variant: the `continue` of line 144 is missing
AssignPlayerNoContinue ==
  /\ opt_pc = "loop"
  /\ idx <= Len(players)
  /\ LET n == players[idx]
         hurt == BenchedForInjury(roster[n])
         slot == Placement(roster[n], filled_slots)
         entry == [player |-> n, recommendedSlot |-> slot]
         b == IF hurt THEN Append(benched, [player |-> n, recommendedSlot |-> BE])
              ELSE benched
     IN IF slot = BE
        THEN /\ benched' = Append(b, entry)
             /\ UNCHANGED <<optimal_lineup, filled_slots>>
        ELSE /\ optimal_lineup' = Append(optimal_lineup, entry)
             /\ filled_slots' = [filled_slots EXCEPT ![slot] = @ + 1]
             /\ benched' = b
  /\ idx' = idx + 1
  /\ UNCHANGED <<roster, players, opt_pc, totalProjected, resVars, aiVars>>

\* one iteration of the loop at lines 140-163
AssignPlayer ==
  /\ opt_pc = "loop"
  /\ idx <= Len(players)
  /\ LET n == players[idx]
         slot == SlotFor(roster[n], filled_slots)
         entry == [player |-> n, recommendedSlot |-> slot]
     IN IF slot = BE
        THEN /\ benched' = Append(benched, entry)
             /\ UNCHANGED <<optimal_lineup, filled_slots>>
        ELSE /\ optimal_lineup' = Append(optimal_lineup, entry)
             /\ filled_slots' = [filled_slots EXCEPT ![slot] = @ + 1]
             /\ UNCHANGED benched
  /\ idx' = idx + 1
  /\ UNCHANGED <<roster, players, opt_pc, totalProjected, resVars, aiVars>>

\* lines 165-169
ReturnLineup ==
  /\ opt_pc = "loop"
  /\ idx > Len(players)
  /\ totalProjected' = SumPoints(roster, optimal_lineup)
  /\ opt_pc' = "done"
  /\ UNCHANGED <<roster, players, idx, optimal_lineup, benched, filled_slots,
               resVars, aiVars>>


(* Rosters. team.roster comes from the league API; each specification draws *)
(* it from a pool of players that varies the attributes its properties read.*)
Positions == {"QB", "RB", "WR", "TE", "K", "D/ST"}
Listed(pos) == IF pos \in FlexPositions THEN {pos, FLEX, BE} ELSE {pos, BE}
Healthy == <<FALSE, "ACTIVE">>
InjuredOut == <<TRUE, "OUT">>

RostersOf(pool) ==
  \E n \in 0 .. MaxRoster : roster \in [1 .. n -> pool]

\* every position, two projections, healthy or injured and OUT; eligibleSlots
\* as the league lists them
LineupPlayers ==
  {Player(pos, pts, h[1], h[2], Listed(pos)) :
     pos \in Positions, pts \in {1, 2}, h \in {Healthy, InjuredOut}}

\* every combination of the injured flag and the injury status
InjuryPlayers ==
  {Player(pos, pts, inj, st, Listed(pos)) :
     pos \in {"QB", "RB"}, pts \in {1, 2}, inj \in BOOLEAN,
     st \in {"ACTIVE", "OUT", "IR"}}

\* quarterbacks and others, with and without the flex slot in eligibleSlots
TwoQBPlayers ==
  {Player(pos, pts, h[1], h[2], el) :
     pos \in {"QB", "RB", "K"}, pts \in {1, 2}, h \in {Healthy, InjuredOut},
     el \in {{BE}, {FLEX, BE}}}

\* flex-capable positions, with and without the flex slot in eligibleSlots
OptimalPlayers ==
  {Player(pos, pts, h[1], h[2], el) :
     pos \in {"RB", "TE"}, pts \in {0, 1, 2}, h \in {Healthy, InjuredOut},
     el \in {{BE}, {FLEX, BE}}}

Init == RostersOf(LineupPlayers) /\ OptIdle /\ ResIdle /\ AiIdle
InitInjury == RostersOf(InjuryPlayers) /\ OptIdle /\ ResIdle /\ AiIdle
InitTwoQB == RostersOf(TwoQBPlayers) /\ OptIdle /\ ResIdle /\ AiIdle
InitOptimal == RostersOf(OptimalPlayers) /\ OptIdle /\ ResIdle /\ AiIdle

Next == SortPlayers \/ AssignPlayer \/ ReturnLineup

Spec == Init /\ [][Next]_vars
SpecInjury == InitInjury /\ [][Next]_vars
SpecTwoQB == InitTwoQB /\ [][Next]_vars
SpecOptimal == InitOptimal /\ [][Next]_vars

(* ------------------------ projection resolver -------------------------- *)
(* get_my_roster lines 56-69; get_free_agents lines 198-210 are the same    *)
(* statements. An optional value is <<>> (absent) or <<v>>.                 *)
Values == 0 .. MaxValue
Optional == {<<>>} \cup {<<v>> : v \in Values}

\* dict.get(key, default) and getattr(obj, name, default)
Get(opt, default) == IF opt = <<>> THEN default ELSE opt[1]

\* stats[current_week]: a dict with optional keys, or an object without .get
WeekEntries ==
  {[readable |-> FALSE, projected_points |-> <<>>, points |-> <<>>]}
    \cup [readable : {TRUE}, projected_points : Optional, points : Optional]

\* player.stats: no such attribute, an object on which `in` raises, or a
\* dict holding the weeks `weeks`, each mapped to `entry`
StatsShapes ==
  {[kind |-> "absent", weeks |-> {}, entry |-> CHOOSE e \in WeekEntries : ~ e.readable],
   [kind |-> "unreadable", weeks |-> {}, entry |-> CHOOSE e \in WeekEntries : ~ e.readable]}
    \cup [kind : {"dict"}, weeks : SUBSET (1 .. MaxWeek), entry : WeekEntries]

ResolverPlayers ==
  [stats : StatsShapes, projected_avg_points : Optional, avg_points : Optional]

\* lines 59-61 raise: `in` on an unreadable stats object, or .get on an entry
\* that has none
WeeklyRaises(p, week) ==
  \/ p.stats.kind = "unreadable"
  \/ p.stats.kind = "dict" /\ week \in p.stats.weeks /\ ~ p.stats.entry.readable

\* line 59: hasattr(player, 'stats') and current_week in player.stats
WeekPresent(p, week) == p.stats.kind = "dict" /\ week \in p.stats.weeks

\* lines 59-61
ResolveWeekly ==
  /\ res_pc = "try"
  /\ IF WeeklyRaises(res_player, current_week)
     THEN res_pc' = "except" /\ UNCHANGED <<projected, actual>>
     ELSE /\ res_pc' = "fallback_projected"
          /\ IF WeekPresent(res_player, current_week)
             THEN /\ projected' = Get(res_player.stats.entry.projected_points, 0)
                  /\ actual' = Get(res_player.stats.entry.points, 0)
             ELSE UNCHANGED <<projected, actual>>
  /\ UNCHANGED <<res_player, current_week, optVars, aiVars>>

\* lines 63-64
FallbackProjected ==
  /\ res_pc = "fallback_projected"
  /\ projected' = IF projected = 0
                  THEN Get(res_player.projected_avg_points, 0)
                  ELSE projected
  /\ res_pc' = "fallback_actual"
  /\ UNCHANGED <<res_player, current_week, actual, optVars, aiVars>>

\* variant: line 65 tests projected instead of actual
FallbackActualOnProjected ==
  /\ res_pc = "fallback_actual"
  /\ actual' = IF projected = 0 THEN Get(res_player.avg_points, 0) ELSE actual
  /\ res_pc' = "done"
  /\ UNCHANGED <<res_player, current_week, projected, optVars, aiVars>>

\* lines 65-66
FallbackActual ==
  /\ res_pc = "fallback_actual"
  /\ actual' = IF actual = 0 THEN Get(res_player.avg_points, 0) ELSE actual
  /\ res_pc' = "done"
  /\ UNCHANGED <<res_player, current_week, projected, optVars, aiVars>>

\* lines 67-69
ExceptFallback ==
  /\ res_pc = "except"
  /\ projected' = Get(res_player.projected_avg_points, 0)
  /\ actual' = Get(res_player.avg_points, 0)
  /\ res_pc' = "done"
  /\ UNCHANGED <<res_player, current_week, optVars, aiVars>>

\* lines 56-57, for one player of the roster
InitResolver ==
  /\ res_pc = "try"
  /\ res_player \in ResolverPlayers
  /\ current_week \in 1 .. MaxWeek
  /\ projected = 0 /\ actual = 0
  /\ opt_pc = "idle" /\ roster = <<>> /\ players = <<>> /\ idx = 0
  /\ optimal_lineup = <<>> /\ benched = <<>>
  /\ filled_slots = [s \in SlotNames |-> 0] /\ totalProjected = 0
  /\ AiIdle

NextResolver == ResolveWeekly \/ FallbackProjected \/ FallbackActual \/ ExceptFallback

SpecResolver == InitResolver /\ [][NextResolver]_vars

(* ------------------------ ai_start_sit_advice -------------------------- *)
(* Text is a sequence of tokens: single characters, and the three line     *)
(* prefixes of the reply format, each one token.                            *)
REC == "RECOMMENDATION:"
CONF == "CONFIDENCE:"
REAS == "REASONING:"
NL == "\n"
Prefixes == {REC, CONF, REAS}
TextTokens == Prefixes \cup {NL, " ", "a", "B", "8", "%"}

\* the characters a token spells, upper-cased (str.upper)
UpperChars(t) ==
  CASE t = REC -> {"R", "E", "C", "O", "M", "N", "D", "A", "T", "I", ":"}
    [] t = CONF -> {"C", "O", "N", "F", "I", "D", "E", ":"}
    [] t = REAS -> {"R", "E", "A", "S", "O", "N", "I", "G", ":"}
    [] t = "a" -> {"A"}
    [] t = "b" -> {"B"}
    [] OTHER -> {t}

\* 'A' in rec, for rec = remainder.upper()
Contains(s, c) == \E i \in DOMAIN s : c \in UpperChars(s[i])

\* ai_text.split('\n')
RECURSIVE SplitLines(_)
SplitLines(s) ==
  IF \A i \in DOMAIN s : s[i] # NL THEN <<s>>
  ELSE LET k == CHOOSE i \in DOMAIN s :
                  s[i] = NL /\ \A j \in 1 .. (i - 1) : s[j] # NL
       IN <<SubSeq(s, 1, k - 1)>> \o SplitLines(SubSeq(s, k + 1, Len(s)))

\* str.strip()
RECURSIVE LStrip(_)
LStrip(s) == IF s # <<>> /\ Head(s) = " " THEN LStrip(Tail(s)) ELSE s

RECURSIVE RStrip(_)
RStrip(s) ==
  IF s # <<>> /\ s[Len(s)] = " " THEN RStrip(SubSeq(s, 1, Len(s) - 1)) ELSE s

Strip(s) == RStrip(LStrip(s))

\* line.split(':', 1)[1] for a line that starts with a prefix
Remainder(line) == Tail(line)

\* str.replace('%', '')
IsNotPercent(t) == t # "%"
RemovePercent(s) == SelectSeq(s, IsNotPercent)

\* int(conf_str): surrounding whitespace is ignored, then decimal digits
Digits == {"0", "1", "2", "3", "4", "5", "6", "7", "8", "9"}
DigitValue(t) ==
  CASE t = "0" -> 0 [] t = "1" -> 1 [] t = "2" -> 2 [] t = "3" -> 3
    [] t = "4" -> 4 [] t = "5" -> 5 [] t = "6" -> 6 [] t = "7" -> 7
    [] t = "8" -> 8 [] t = "9" -> 9

IntParses(s) ==
  Strip(s) # <<>> /\ \A i \in DOMAIN Strip(s) : Strip(s)[i] \in Digits

RECURSIVE DecimalValue(_)
DecimalValue(s) ==
  IF s = <<>> THEN 0
  ELSE 10 * DecimalValue(SubSeq(s, 1, Len(s) - 1)) + DigitValue(s[Len(s)])

IntValue(s) == DecimalValue(Strip(s))

\* variant: 'B' is looked for before 'A'
RecommendationBFirst(line, rec) ==
  IF Contains(Strip(Remainder(line)), "B") THEN "B"
  ELSE IF Contains(Strip(Remainder(line)), "A") THEN "A" ELSE rec

\* lines 311-316
RecommendationAfter(line, rec) ==
  IF Contains(Strip(Remainder(line)), "A") THEN "A"
  ELSE IF Contains(Strip(Remainder(line)), "B") THEN "B" ELSE rec

\* lines 318-322
ConfidenceAfter(line, conf) ==
  LET conf_str == RemovePercent(Strip(Remainder(line)))
  IN IF IntParses(conf_str) THEN IntValue(conf_str) ELSE conf

\* line 324
ReasoningAfter(line) == Strip(Remainder(line))

\* request.get_json() and the two player objects (lines 239-241)
PlayerValues == {"missing", "null", "empty", "partial", "text", "full"}
Bodies ==
  {[kind |-> k, playerA |-> "missing", playerB |-> "missing"] :
     k \in {"absent", "null", "list"}}
    \cup [kind : {"object"}, playerA : PlayerValues, playerB : PlayerValues]

\* line 243: not player_a
Falsy(v) == v \in {"missing", "null", "empty"}

\* lines 249-263: the subscripts of the prompt raise on these
PromptRaises(v) == v \in {"partial", "text"}

TextsUpTo(n) == UNION {[1 .. k -> TextTokens] : k \in 0 .. n}

\* what requests.post and the reply can be (lines 290-300)
RemoteFailures ==
  {"timeout", "error", "non200", "invalid_json", "no_candidates", "bad_shape"}
RemoteOutcomes ==
  [kind : RemoteFailures, text : {<<>>}]
    \cup [kind : {"ok"}, text : TextsUpTo(MaxRemoteText)]

\* return jsonify(...), status: the handler's single response
Respond(status) ==
  /\ responses' = Append(responses, status)
  /\ ai_pc' = "done"

\* lines 239-241; a raise ends in the handler's except clause (lines 334-335)
ReadBody ==
  /\ ai_pc = "start"
  /\ IF body.kind = "object"
     THEN ai_pc' = "check_players" /\ UNCHANGED responses
     ELSE Respond(500)
  /\ UNCHANGED <<body, api_key, outbound, remote, ai_text, lines,
                 recommendation, confidence, reasoning, optVars, resVars>>

\* lines 243-244
CheckPlayers ==
  /\ ai_pc = "check_players"
  /\ IF Falsy(body.playerA) \/ Falsy(body.playerB)
     THEN Respond(400)
     ELSE ai_pc' = "prompt" /\ UNCHANGED responses
  /\ UNCHANGED <<body, api_key, outbound, remote, ai_text, lines,
                 recommendation, confidence, reasoning, optVars, resVars>>

\* lines 247-270
BuildPrompt ==
  /\ ai_pc = "prompt"
  /\ IF PromptRaises(body.playerA) \/ PromptRaises(body.playerB)
     THEN Respond(500)
     ELSE ai_pc' = "check_key" /\ UNCHANGED responses
  /\ UNCHANGED <<body, api_key, outbound, remote, ai_text, lines,
                 recommendation, confidence, reasoning, optVars, resVars>>

\* lines 273-275
CheckKey ==
  /\ ai_pc = "check_key"
  /\ IF api_key
     THEN ai_pc' = "post" /\ UNCHANGED responses
     ELSE Respond(500)
  /\ UNCHANGED <<body, api_key, outbound, remote, ai_text, lines,
                 recommendation, confidence, reasoning, optVars, resVars>>

\* line 290: the one requests.post; a timeout or a connection error raises
PostGemini ==
  /\ ai_pc = "post"
  /\ outbound' = outbound + 1
  /\ \E o \in RemoteOutcomes :
       /\ remote' = o
       /\ IF o.kind \in {"timeout", "error"}
          THEN Respond(500)
          ELSE ai_pc' = "check_status" /\ UNCHANGED responses
  /\ UNCHANGED <<body, api_key, ai_text, lines, recommendation, confidence,
                 reasoning, optVars, resVars>>

\* variant: a non-200 answer is retried
CheckStatusRetry ==
  /\ ai_pc = "check_status"
  /\ IF remote.kind = "non200"
     THEN ai_pc' = "post" /\ UNCHANGED responses
     ELSE ai_pc' = "read_candidates" /\ UNCHANGED responses
  /\ UNCHANGED <<body, api_key, outbound, remote, ai_text, lines,
                 recommendation, confidence, reasoning, optVars, resVars>>

\* lines 292-293
CheckStatus ==
  /\ ai_pc = "check_status"
  /\ IF remote.kind = "non200"
     THEN Respond(500)
     ELSE ai_pc' = "read_candidates" /\ UNCHANGED responses
  /\ UNCHANGED <<body, api_key, outbound, remote, ai_text, lines,
                 recommendation, confidence, reasoning, optVars, resVars>>

\* lines 295-298
ReadCandidates ==
  /\ ai_pc = "read_candidates"
  /\ IF remote.kind \in {"invalid_json", "no_candidates"}
     THEN Respond(500)
     ELSE ai_pc' = "extract" /\ UNCHANGED responses
  /\ UNCHANGED <<body, api_key, outbound, remote, ai_text, lines,
                 recommendation, confidence, reasoning, optVars, resVars>>

\* line 300
ExtractText ==
  /\ ai_pc = "extract"
  /\ IF remote.kind = "bad_shape"
     THEN Respond(500) /\ UNCHANGED ai_text
     ELSE ai_pc' = "text" /\ ai_text' = remote.text /\ UNCHANGED responses
  /\ UNCHANGED <<body, api_key, outbound, remote, lines, recommendation,
                 confidence, reasoning, optVars, resVars>>

\* lines 303-308
StartParse ==
  /\ ai_pc = "text"
  /\ recommendation' = "A"
  /\ confidence' = 50
  /\ reasoning' = ai_text
  /\ lines' = SplitLines(ai_text)
  /\ ai_pc' = "parse"
  /\ UNCHANGED <<body, api_key, outbound, remote, ai_text, responses,
                 optVars, resVars>>

\* one iteration of the loop at lines 309-324
ParseLine ==
  /\ ai_pc = "parse"
  /\ lines # <<>>
  /\ LET line == Strip(Head(lines))
         kind == IF line = <<>> THEN "" ELSE Head(line)
     IN /\ recommendation' =
             IF kind = REC THEN RecommendationAfter(line, recommendation)
             ELSE recommendation
        /\ confidence' =
             IF kind = CONF THEN ConfidenceAfter(line, confidence)
             ELSE confidence
        /\ reasoning' = IF kind = REAS THEN ReasoningAfter(line) ELSE reasoning
  /\ lines' = Tail(lines)
  /\ UNCHANGED <<ai_pc, body, api_key, outbound, remote, ai_text, responses,
                 optVars, resVars>>

\* lines 326-332
ReturnAdvice ==
  /\ ai_pc = "parse"
  /\ lines = <<>>
  /\ Respond(200)
  /\ UNCHANGED <<body, api_key, outbound, remote, ai_text, lines,
                 recommendation, confidence, reasoning, optVars, resVars>>

OthersIdle ==
  /\ opt_pc = "idle" /\ roster = <<>> /\ players = <<>> /\ idx = 0
  /\ optimal_lineup = <<>> /\ benched = <<>>
  /\ filled_slots = [s \in SlotNames |-> 0] /\ totalProjected = 0
  /\ ResIdle

\* a request arrives
InitAdvice ==
  /\ ai_pc = "start"
  /\ body \in Bodies
  /\ api_key \in BOOLEAN
  /\ outbound = 0 /\ remote = [kind |-> "none", text |-> <<>>]
  /\ ai_text = <<>> /\ lines = <<>>
  /\ recommendation = None /\ confidence = 0 /\ reasoning = <<>>
  /\ responses = <<>>
  /\ OthersIdle

NextAdvice ==
  \/ ReadBody \/ CheckPlayers \/ BuildPrompt \/ CheckKey \/ PostGemini
  \/ CheckStatus \/ ReadCandidates \/ ExtractText
  \/ StartParse \/ ParseLine \/ ReturnAdvice

SpecAdvice == InitAdvice /\ [][NextAdvice]_vars

\* the replies of section 8: 'RECOMMENDATION: A / CONFIDENCE: 82% /
\* REASONING: <text>' and 'CONFIDENCE: unknown'
WellFormedReply ==
  <<REC, " ", "A", NL, CONF, " ", "8", "2", "%", NL, REAS, " ", "a", " ", "B">>
MalformedConfidenceReply ==
  <<CONF, " ", "u", "n", "k", "n", "o", "w", "n">>

\* the handler has just read the reply text (line 300)
InitParse ==
  /\ ai_pc = "text"
  /\ body = [kind |-> "object", playerA |-> "full", playerB |-> "full"]
  /\ api_key = TRUE
  /\ outbound = 1
  /\ \/ \E n \in 0 .. MaxText : ai_text \in [1 .. n -> TextTokens]
     \/ ai_text \in {WellFormedReply, MalformedConfidenceReply}
  /\ remote = [kind |-> "ok", text |-> ai_text]
  /\ lines = <<>>
  /\ recommendation = None /\ confidence = 0 /\ reasoning = <<>>
  /\ responses = <<>>
  /\ OthersIdle

NextParse == StartParse \/ ParseLine \/ ReturnAdvice

SpecParse == InitParse /\ [][NextParse]_vars

(* ------------------- properties of optimize_lineup --------------------- *)
InLoop == opt_pc \in {"loop", "done"}
Processed == {players[j] : j \in 1 .. (idx - 1)}
Starters == {optimal_lineup[j].player : j \in DOMAIN optimal_lineup}
Bench == {benched[j].player : j \in DOMAIN benched}
InjuredOutOrIR(n) ==
  roster[n].injured /\ (roster[n].injuryStatus = "OUT" \/ roster[n].injuryStatus = "IR")
OnBench(n) ==
  \E j \in DOMAIN benched : benched[j] = [player |-> n, recommendedSlot |-> BE]
StartersIn(s) ==
  {j \in DOMAIN optimal_lineup : optimal_lineup[j].recommendedSlot = s}

\* C1: after every step of the assignment loop the players processed so far
\* are partitioned into optimalLineup and bench (none in both, none omitted,
\* none twice), and the final result partitions the whole roster, so
\* len(optimalLineup) + len(bench) = len(roster).
C1_Partition ==
  InLoop =>
    /\ Starters \cap Bench = {}
    /\ Starters \cup Bench = Processed
    /\ Cardinality(Starters) = Len(optimal_lineup)
    /\ Cardinality(Bench) = Len(benched)
    /\ Len(optimal_lineup) + Len(benched) = idx - 1
    /\ (opt_pc = "done" =>
          /\ Starters \cup Bench = DOMAIN roster
          /\ Len(optimal_lineup) + Len(benched) = Len(roster))

C1_Witness ==
  /\ opt_pc = "done" /\ Len(roster) >= 3
  /\ optimal_lineup # <<>> /\ benched # <<>>
  /\ \E n \in DOMAIN roster : InjuredOutOrIR(n)

\* C2 as stated: no starter carries injury status OUT or IR, whatever its
\* injured flag.
C2_NoTaggedStarter ==
  \A j \in DOMAIN optimal_lineup :
    roster[optimal_lineup[j].player].injuryStatus \notin {"OUT", "IR"}

\* C2 amended: no starter is both flagged injured and tagged OUT or IR.
C2_NoInjuredTaggedStarter ==
  \A j \in DOMAIN optimal_lineup :
    ~ (/\ roster[optimal_lineup[j].player].injured
       /\ roster[optimal_lineup[j].player].injuryStatus \in {"OUT", "IR"})

C2_Witness ==
  /\ opt_pc = "done"
  /\ \E n \in Starters : ~ roster[n].injured /\ roster[n].injuryStatus = "OUT"
  /\ \E n \in Bench : roster[n].injured /\ roster[n].injuryStatus = "IR"

\* C3: every processed player with injured = true and injuryStatus OUT or IR
\* is in bench with recommendedSlot BE, whatever its projection, its position
\* and the free slots; processing such a player changes no filled-slot counter.
C3_InjuredBenched ==
  /\ [](InLoop => \A n \in Processed : InjuredOutOrIR(n) => OnBench(n) /\ n \notin Starters)
  /\ [][(opt_pc = "loop" /\ idx <= Len(players) /\ InjuredOutOrIR(players[idx]))
          => filled_slots' = filled_slots]_vars

C3_Witness ==
  /\ opt_pc = "done"
  /\ \E n \in DOMAIN roster :
       /\ InjuredOutOrIR(n) /\ OnBench(n)
       /\ roster[n].projectedPoints = 2
       /\ filled_slots[roster[n].position] = 0
       /\ filled_slots[FLEX] = 0

TotalSlots ==
  lineup_slots["QB"] + lineup_slots["RB"] + lineup_slots["WR"] + lineup_slots["TE"]
    + lineup_slots[FLEX] + lineup_slots["D/ST"] + lineup_slots["K"]

\* C4: at every point of the loop and in the result, no slot of the lineup
\* requirement holds more starters than its count, every starter's
\* recommendedSlot is a slot of the requirement, and there are at most 9
\* starters.
C4_SlotCounts ==
  InLoop =>
    /\ \A s \in SlotNames : Cardinality(StartersIn(s)) <= lineup_slots[s]
    /\ \A j \in DOMAIN optimal_lineup :
         optimal_lineup[j].recommendedSlot \in SlotNames
    /\ Len(optimal_lineup) <= TotalSlots
    /\ TotalSlots = 9

C4_Witness ==
  /\ opt_pc = "done"
  /\ \E s \in FlexPositions :
       /\ Cardinality(StartersIn(s)) = lineup_slots[s]
       /\ Cardinality(StartersIn(FLEX)) = lineup_slots[FLEX]
       /\ \E n \in Bench :
            /\ roster[n].position = s /\ ~ InjuredOutOrIR(n)
            /\ FLEX \in roster[n].eligibleSlots

QBs == {n \in DOMAIN roster : roster[n].position = "QB"}
NoFlexForOthers ==
  \A j \in DOMAIN optimal_lineup :
    optimal_lineup[j].recommendedSlot = FLEX
      => roster[optimal_lineup[j].player].position \in {"RB", "WR", "TE"}

Max2(a, b) == IF a >= b THEN a ELSE b

RECURSIVE BestTotal(_, _, _)
BestTotal(r, n, f) ==
  IF n > Len(r) THEN 0
  ELSE LET p == r[n]
           usable == ~ (p.injured /\ p.injuryStatus \in {"OUT", "IR"})
           sitOut == BestTotal(r, n + 1, f)
           own == IF /\ usable /\ p.position \in SlotNames
                     /\ f[p.position] < lineup_slots[p.position]
                  THEN p.projectedPoints
                       + BestTotal(r, n + 1, [f EXCEPT ![p.position] = @ + 1])
                  ELSE 0
           flex == IF /\ usable /\ p.position \in {"RB", "WR", "TE"}
                      /\ FLEX \in p.eligibleSlots
                      /\ f[FLEX] < lineup_slots[FLEX]
                   THEN p.projectedPoints
                        + BestTotal(r, n + 1, [f EXCEPT ![FLEX] = @ + 1])
                   ELSE 0
       IN Max2(sitOut, Max2(own, flex))

MaximumTotal == BestTotal(roster, 1, [s \in SlotNames |-> 0])

\* C10 as stated: totalProjected is the maximum total projection over all
\* valid lineups of the roster (projections non-negative).
C10_TotalIsMaximum == opt_pc = "done" => totalProjected = MaximumTotal

FlexListedByAll ==
  \A n \in DOMAIN roster :
    roster[n].position \in {"RB", "WR", "TE"} => FLEX \in roster[n].eligibleSlots

\* C10 amended: when every player of natural position RB, WR or TE lists
\* RB/WR/TE in eligibleSlots, totalProjected is the maximum total projection
\* over all valid lineups of the roster (projections non-negative).
C10_TotalIsMaximumWhenFlexListed ==
  (opt_pc = "done" /\ FlexListedByAll) => totalProjected = MaximumTotal

C10_Witness ==
  /\ opt_pc = "done" /\ FlexListedByAll
  /\ filled_slots[FLEX] = 1
  /\ \E n \in Bench : ~ InjuredOutOrIR(n) /\ roster[n].projectedPoints > 0
  /\ totalProjected = MaximumTotal /\ totalProjected >= 3

(* ----------------- properties of the projection resolver --------------- *)
\* the value of the week's entry under key, <<>> when the week, the entry or
\* the key is missing
WeeklyValue(key) ==
  IF /\ res_player.stats.kind = "dict"
     /\ current_week \in res_player.stats.weeks
     /\ res_player.stats.entry.readable
  THEN IF key = "projected_points"
       THEN res_player.stats.entry.projected_points
       ELSE res_player.stats.entry.points
  ELSE <<>>

Resolved(weekly, average) ==
  IF weekly # <<>> /\ weekly[1] # 0 THEN weekly[1]
  ELSE IF average # <<>> THEN average[1] ELSE 0

\* C6: the resolver never raises, and each of projected and actual is the
\* weekly value when the week is present and the value nonzero, else the
\* season average, else 0; each value falls back on its own.
C6_Resolver ==
  /\ res_pc \in {"try", "fallback_projected", "fallback_actual", "except", "done"}
  /\ res_pc = "done" =>
       /\ projected = Resolved(WeeklyValue("projected_points"),
                               res_player.projected_avg_points)
       /\ actual = Resolved(WeeklyValue("points"), res_player.avg_points)

C6_Witness ==
  /\ res_pc = "done"
  /\ WeeklyValue("projected_points") = <<2>>
  /\ WeeklyValue("points") = <<0>>
  /\ res_player.projected_avg_points = <<1>>
  /\ res_player.avg_points = <<1>>
  /\ projected = 2 /\ actual = 1

(* ----------------- properties of ai_start_sit_advice ------------------- *)
ReplyLine(i) == Strip(SplitLines(ai_text)[i])
LinesOf(prefix) ==
  {i \in 1 .. Len(SplitLines(ai_text)) :
     ReplyLine(i) # <<>> /\ Head(ReplyLine(i)) = prefix}
LastOf(S) == CHOOSE i \in S : \A j \in S : j <= i
Rest(i) == Strip(Tail(ReplyLine(i)))
WithoutTrailingPercent(s) ==
  IF s # <<>> /\ s[Len(s)] = "%" THEN SubSeq(s, 1, Len(s) - 1) ELSE s
Parsed == ai_pc = "done" /\ responses = <<200>>

\* C7 as stated, reading "the X: line" as the last line with that prefix:
\* recommendation is A if the remainder contains A, else B if it contains B,
\* else A; confidence is the integer of the remainder with a trailing %
\* stripped, 50 when absent or unparsable; reasoning is the remainder, the
\* raw reply when absent.
C7_ParseAsStated ==
  Parsed =>
    /\ recommendation =
         IF LinesOf(REC) = {} THEN "A"
         ELSE IF Contains(Rest(LastOf(LinesOf(REC))), "A") THEN "A"
         ELSE IF Contains(Rest(LastOf(LinesOf(REC))), "B") THEN "B" ELSE "A"
    /\ confidence =
         IF LinesOf(CONF) = {} THEN 50
         ELSE LET r == WithoutTrailingPercent(Rest(LastOf(LinesOf(CONF))))
              IN IF IntParses(r) THEN IntValue(r) ELSE 50
    /\ reasoning =
         IF LinesOf(REAS) = {} THEN ai_text ELSE Rest(LastOf(LinesOf(REAS)))

\* C7 amended: the last RECOMMENDATION: line whose remainder contains A or B
\* (case-insensitively) decides, A before B, and A when there is none; the
\* last CONFIDENCE: line whose remainder with every % removed is an integer
\* gives the confidence, 50 when there is none; reasoning is the remainder of
\* the last REASONING: line, the raw reply when there is none; parsing never
\* raises; the two replies of section 8 give (A, 82, text) and 50.
C7_LastMatchingLineDecides ==
  /\ ai_pc = "done" => responses = <<200>>
  /\ Parsed =>
       LET recs == {i \in LinesOf(REC) :
                      Contains(Rest(i), "A") \/ Contains(Rest(i), "B")}
           confs == {i \in LinesOf(CONF) : IntParses(RemovePercent(Rest(i)))}
       IN /\ recommendation =
               IF recs = {} THEN "A"
               ELSE IF Contains(Rest(LastOf(recs)), "A") THEN "A" ELSE "B"
          /\ confidence =
               IF confs = {} THEN 50
               ELSE IntValue(RemovePercent(Rest(LastOf(confs))))
          /\ reasoning =
               IF LinesOf(REAS) = {} THEN ai_text
               ELSE Rest(LastOf(LinesOf(REAS)))
          /\ ai_text = WellFormedReply =>
               /\ recommendation = "A" /\ confidence = 82
               /\ reasoning = <<"a", " ", "B">>
          /\ ai_text = MalformedConfidenceReply => confidence = 50

C7_Witness ==
  /\ Parsed
  /\ Cardinality(LinesOf(CONF)) = 2
  /\ IntParses(RemovePercent(Rest(1)))
  /\ ~ IntParses(RemovePercent(Rest(2)))
  /\ confidence = 8

PlayerObjectMissing ==
  \/ body.kind # "object"
  \/ body.playerA \in {"missing", "null"}
  \/ body.playerB \in {"missing", "null"}

\* C8: a request in which the playerA or the playerB object is missing, a
\* request without a JSON object as its body included, is answered with
\* status 400 and no other status.
C8_MissingPlayerIs400 ==
  (ai_pc = "done" /\ PlayerObjectMissing) => responses = <<400>>

\* C9: the outbound request is issued at most once, and only for a request
\* that passed the player-objects check and the API-key check; when the call
\* times out, raises, answers a non-200 status or holds no candidates, the
\* handler ends with the single response 500 and one outbound request.
C9_SingleOutboundCall ==
  /\ outbound <= 1
  /\ Len(responses) <= 1
  /\ outbound = 1 =>
       /\ body.kind = "object"
       /\ body.playerA \notin {"missing", "null", "empty"}
       /\ body.playerB \notin {"missing", "null", "empty"}
       /\ api_key
  /\ ai_pc \in {"start", "check_players", "prompt", "check_key", "post"}
       => outbound = 0
  /\ (ai_pc = "done"
      /\ remote.kind \in {"timeout", "error", "non200", "no_candidates",
                          "invalid_json", "bad_shape"})
       => responses = <<500>> /\ outbound = 1

C9_Witness ==
  /\ ai_pc = "done" /\ remote.kind = "timeout"
  /\ responses = <<500>> /\ outbound = 1
====
